---- MODULE Spec2Model ----
(***************************************************************************)
(* Model of BulkFileProcessor (src/file_processor.py): the computation of  *)
(* output paths, the conflict policies, the copy / conversion dispatch and *)
(* the batch loop of process_files with its tally.                         *)
(*                                                                         *)
(* A file name is a sequence of one-character strings, so that stem,       *)
(* suffix, lower-casing and the " (n)" numbering are computed the way      *)
(* pathlib and the f-string compute them.  A path is a record              *)
(* [dir, name] with an absolute directory.  One directory, LinkDir, is a   *)
(* symbolic link to the directory TargetDir, so that one file can be       *)
(* spelled in two ways.  The disk is a function from the canonical paths   *)
(* of the existing files to their content.                                 *)
(***************************************************************************)
EXTENDS Integers, Sequences, FiniteSets, TLC

VARIABLES
    source_files,      \* self.source_files: sequence of paths
    target_dir,        \* self.target_dir
    rename_prefix,     \* self.rename_prefix
    rename_suffix,     \* self.rename_suffix
    convert_enabled,   \* self.convert_enabled
    target_extension,  \* self.target_extension
    conflict_policy,   \* self.conflict_policy
    fs,                \* the disk: path -> content
    fs0,               \* the disk when process_files was entered
    pc,                \* position of the handler
    i,                 \* loop index of process_files (1-based)
    total_files,       \* local total_files
    success_count,     \* local success_count
    outcomes,          \* per-item trace (what the log lines of an item say)
    batch_errors,      \* number of batch-level error lines logged
    completion,        \* level of the "Processing Complete" line
    arg,               \* argument of a direct call of a path function
    ret                \* its result

vars == <<source_files, target_dir, rename_prefix, rename_suffix,
          convert_enabled, target_extension, conflict_policy, fs, fs0, pc, i,
          total_files, success_count, outcomes, batch_errors, completion,
          arg, ret>>

settings == <<source_files, target_dir, rename_prefix, rename_suffix,
              convert_enabled, target_extension, conflict_policy>>

-----------------------------------------------------------------------------
(* Bounds *)

\* longest source list of a batch
MaxFiles == 3

\* longest file name drawn for a direct call of get_output_path
MaxNameLen == 3

\* longest run f, f (1), ..., f (k-1) of existing names drawn for a direct
\* call of get_unique_output_path
MaxChain == 11

-----------------------------------------------------------------------------
(* Strings *)

\* str.lower() on the letters the model uses
UpperToLower == ("M" :> "m") @@ ("B" :> "b") @@ ("W" :> "w")

LowerChar(c) == IF c \in DOMAIN UpperToLower THEN UpperToLower[c] ELSE c

Lower(s) == [k \in 1..Len(s) |-> LowerChar(s[k])]

\* str.rfind('.') as a 1-based position, 0 when there is no dot
RFindDot(name) ==
    LET hits == {k \in 1..Len(name) : name[k] = "."}
    IN  IF hits = {} THEN 0 ELSE CHOOSE k \in hits : \A h \in hits : h <= k

\* pathlib: the suffix starts at the last dot unless that dot is the first or
\* the last character of the name
HasSuffix(name) == RFindDot(name) > 1 /\ RFindDot(name) < Len(name)

PathSuffix(name) ==
    IF HasSuffix(name) THEN SubSeq(name, RFindDot(name), Len(name)) ELSE <<>>

PathStem(name) ==
    IF HasSuffix(name) THEN SubSeq(name, 1, RFindDot(name) - 1) ELSE name

Digits == <<"0", "1", "2", "3", "4", "5", "6", "7", "8", "9">>

\* str(counter) of the f-string
RECURSIVE Str(_)
Str(n) == IF n < 10 THEN <<Digits[n + 1]>>
          ELSE Str(n \div 10) \o <<Digits[(n % 10) + 1]>>

-----------------------------------------------------------------------------
(* Paths and the disk *)

NoTargetSelected == "No target directory selected"

\* the None that get_output_path returns
NoPath == [dir |-> "", name |-> <<>>]

\* pathlib.Path(dir) / name
Join(dir, name) == [dir |-> dir, name |-> name]

\* Path.with_name
WithName(path, name) == [dir |-> path.dir, name |-> name]

SourceDir == "S"
TargetDir == "T"

\* a symbolic link to TargetDir
LinkDir == "L"

\* Path.resolve: the canonical path, symbolic links followed
Resolve(path) ==
    [dir |-> IF path.dir = LinkDir THEN TargetDir ELSE path.dir,
     name |-> path.name]

\* Path.exists
Exists(path) == Resolve(path) \in DOMAIN fs

\* the disk after `path` received `content`
Write(disk, path, content) ==
    [p \in (DOMAIN disk) \cup {path} |-> IF p = path THEN content ELSE disk[p]]

\* content of a file that was on the disk before the run
Original(path) == [origin |-> path, form |-> "raw"]

-----------------------------------------------------------------------------
(* get_output_path, get_unique_output_path *)

\* "if self.convert_enabled.get() and self.target_extension.get()"
ConversionActive == convert_enabled /\ target_extension /= <<>>

\* variant: the check forgets the placeholder text of the label
TargetUnset_emptyOnly == target_dir = ""

TargetUnset == target_dir = "" \/ target_dir = NoTargetSelected

\* variant: the target extension is appended to the source's own extension
get_output_path_keepsBoth(source_path) ==
    IF target_dir = "" \/ target_dir = NoTargetSelected THEN NoPath
    ELSE Join(target_dir,
              rename_prefix \o PathStem(source_path.name) \o rename_suffix
              \o Lower(PathSuffix(source_path.name))
              \o (IF ~ConversionActive THEN <<>>
                  ELSE IF target_extension[1] /= "."
                       THEN <<".">> \o target_extension
                       ELSE target_extension))

get_output_path(source_path) ==
    IF TargetUnset THEN NoPath
    ELSE
        LET original_name == PathStem(source_path.name)
            original_ext  == Lower(PathSuffix(source_path.name))
            new_name      == rename_prefix \o original_name \o rename_suffix
            target_ext    ==
                IF ConversionActive
                THEN IF target_extension[1] /= "."
                     THEN <<".">> \o target_extension
                     ELSE target_extension
                ELSE original_ext
        IN  Join(target_dir, new_name \o target_ext)

\* f"{base_stem} ({counter}){ext}"
NumberedName(base_stem, counter, ext) ==
    base_stem \o <<" ", "(">> \o Str(counter) \o <<")">> \o ext

\* the while loop: new_path is probed, counter is the next number to try
RECURSIVE UniqueLoop(_, _, _)
UniqueLoop(target_path, new_path, counter) ==
    IF ~Exists(new_path) THEN new_path
    ELSE UniqueLoop(target_path,
                    WithName(target_path,
                             NumberedName(PathStem(target_path.name), counter,
                                          PathSuffix(target_path.name))),
                    counter + 1)

\* variant: the counter starts at 2
get_unique_output_path_fromTwo(target_path) ==
    IF ~Exists(target_path) THEN target_path
    ELSE UniqueLoop(target_path, target_path, 2)

\* variant: " (1)" is appended without probing the new name
get_unique_output_path_noProbe(target_path) ==
    IF ~Exists(target_path) THEN target_path
    ELSE WithName(target_path,
                  NumberedName(PathStem(target_path.name), 1,
                               PathSuffix(target_path.name)))

get_unique_output_path(target_path) ==
    IF ~Exists(target_path) THEN target_path
    ELSE UniqueLoop(target_path, target_path, 1)

-----------------------------------------------------------------------------
(* What the operating system and the converter can do with one item *)

\* shutil.copy2(source_path, output_path): FileNotFoundError when the source
\* is missing; otherwise the copy is made, or the write is refused
\* (PermissionError) and nothing is written
CopyResults(source_path) ==
    IF ~Exists(source_path)
    THEN {[ok |-> FALSE, reason |-> "SourceNotFound", leaves |-> "nothing"]}
    ELSE {[ok |-> TRUE, reason |-> "None", leaves |-> "copy"],
          [ok |-> FALSE, reason |-> "PermissionDenied", leaves |-> "nothing"]}

\* run_ffmpeg_conversion: True when ffmpeg exits 0; every failure (non-zero
\* exit, executable missing, any other exception) is logged and returns
\* False.  A failed ffmpeg may or may not leave a partial output file; with a
\* missing input it fails before it opens the output.
run_ffmpeg_conversion(input_path) ==
    IF ~Exists(input_path)
    THEN {[ok |-> FALSE, reason |-> "ConverterFailed", leaves |-> "nothing"]}
    ELSE {[ok |-> TRUE, reason |-> "None", leaves |-> "converted"],
          [ok |-> FALSE, reason |-> "ConverterFailed", leaves |-> "nothing"],
          [ok |-> FALSE, reason |-> "ConverterFailed", leaves |-> "partial"]}

\* the disk after the copy or conversion of source_path to output_path ended
\* as result r
DiskAfter(source_path, output_path, r) ==
    IF r.leaves = "nothing" THEN fs
    ELSE IF r.leaves = "copy"
    THEN Write(fs, Resolve(output_path), fs[Resolve(source_path)])
    ELSE Write(fs, Resolve(output_path),
               [origin |-> fs[Resolve(source_path)].origin,
                form |-> r.leaves])

\* one entry of the per-item trace: the source, the path get_output_path
\* computed, the path the policy settled on, how the item ended, whether the
\* disk was written, and whether the final path and the source existed when
\* the item was taken up
Outcome(source_path, desired, final_path, status, reason, wrote) ==
    [source |-> source_path, desired |-> desired, final_path |-> final_path,
     status |-> status, reason |-> reason, wrote |-> wrote,
     existed |-> Exists(final_path), source_existed |-> Exists(source_path)]

-----------------------------------------------------------------------------
(* process_files *)

\* the entry of the handler: the two batch-level checks, then the locals
Start ==
    /\ pc = "idle"
    /\ IF source_files = <<>> \/ TargetUnset
       THEN /\ pc' = "returned"
            /\ batch_errors' = batch_errors + 1
            /\ UNCHANGED <<i, total_files, success_count>>
       ELSE /\ pc' = "loop"
            /\ i' = 1
            /\ total_files' = Len(source_files)
            /\ success_count' = 0
            /\ UNCHANGED batch_errors
    /\ fs0' = fs
    /\ UNCHANGED <<settings, fs, outcomes, completion, arg, ret>>

\* variant: the auto_rename branch is missing
EffectivePath_noRename(desired) == desired

\* the path the item is written to once the conflict policy has been applied
\* to the desired path (steps 1 and 2 of the loop body)
EffectivePath(desired) ==
    IF Exists(desired) /\ conflict_policy = "auto_rename"
    THEN get_unique_output_path(desired)
    ELSE desired

\* variant: the skip branch is missing
SkipsOnConflict_never(desired) == FALSE

\* "if policy == 'skip'" under "if output_path.exists()"
SkipsOnConflict(desired) == Exists(desired) /\ conflict_policy = "skip"

\* variant: the identity check is missing
IdentityGuard_off(source_path, output_path) == FALSE

\* step 3: "if source_path.resolve() == output_path.resolve()"
IdentityGuard(source_path, output_path) ==
    Resolve(source_path) = Resolve(output_path)

\* step 4: what the copy or the converter can do with the item
Dispatch(source_path) ==
    IF ConversionActive THEN run_ffmpeg_conversion(source_path)
    ELSE CopyResults(source_path)

\* variant: the return value of the converter is ignored
CountAfter_always(r) == success_count + 1

\* "success_count += 1" happens on a completed copy and on a True from
\* run_ffmpeg_conversion
CountAfter(r) == IF r.ok THEN success_count + 1 ELSE success_count

\* variant: a failure is re-raised and ends the loop
AfterItem_abortOnFailure(status) ==
    IF status = "failed" THEN Len(source_files) + 1 ELSE i + 1

\* every exception of the copy is caught by the except clauses and the
\* converter reports failure by its return value: whatever the status of the
\* item, the loop goes on with the next one
AfterItem(status) == i + 1

\* one iteration of "for i, source_path in enumerate(self.source_files)"
ProcessItem ==
    /\ pc = "loop"
    /\ i <= Len(source_files)
    /\ LET source_path == source_files[i]
           desired     == get_output_path(source_path)
           output_path == EffectivePath(desired)
       IN  IF desired = NoPath
           THEN /\ outcomes' = Append(outcomes,
                      Outcome(source_path, desired, NoPath, "skipped",
                              "NoTargetDirectory", FALSE))
                /\ i' = AfterItem("skipped")
                /\ UNCHANGED <<fs, success_count>>
           ELSE IF SkipsOnConflict(desired)
           THEN /\ outcomes' = Append(outcomes,
                      Outcome(source_path, desired, desired, "skipped",
                              "Conflict", FALSE))
                /\ i' = AfterItem("skipped")
                /\ UNCHANGED <<fs, success_count>>
           ELSE IF IdentityGuard(source_path, output_path)
           THEN /\ outcomes' = Append(outcomes,
                      Outcome(source_path, desired, output_path, "skipped",
                              "IdenticalPath", FALSE))
                /\ i' = AfterItem("skipped")
                /\ UNCHANGED <<fs, success_count>>
           ELSE \E r \in Dispatch(source_path) :
                /\ fs' = DiskAfter(source_path, output_path, r)
                /\ success_count' = CountAfter(r)
                /\ outcomes' = Append(outcomes,
                      Outcome(source_path, desired, output_path,
                              IF r.ok THEN "succeeded" ELSE "failed",
                              r.reason, r.leaves /= "nothing"))
                /\ i' = AfterItem(IF r.ok THEN "succeeded" ELSE "failed")
    /\ UNCHANGED <<settings, fs0, pc, total_files, batch_errors, completion,
                   arg, ret>>

\* the line after the loop: "Processing Complete", an error line when
\* success_count != total_files
Finish ==
    /\ pc = "loop"
    /\ i > Len(source_files)
    /\ pc' = "done"
    /\ completion' = IF success_count /= total_files THEN "error" ELSE "info"
    /\ UNCHANGED <<settings, fs, fs0, i, total_files, success_count, outcomes,
                   batch_errors, arg, ret>>

-----------------------------------------------------------------------------
(* The batch: the settings and the disk a run can start from *)

\* the files the user can select: File_a exists; File_Ta has the same name,
\* lies in the target directory and may exist; File_b exists, lies in the
\* target directory and has an upper-case extension; File_g does not exist
File_a  == Join(SourceDir, <<"a", ".", "m">>)
File_Ta == Join(TargetDir, <<"a", ".", "m">>)
File_b  == Join(TargetDir, <<"b", ".", "M">>)
File_g  == Join(SourceDir, <<"g", ".", "m">>)

Selectable == {File_a, File_Ta, File_b, File_g}

RECURSIVE SeqsUpTo(_, _)
SeqsUpTo(S, n) ==
    IF n = 0 THEN {<<>>}
    ELSE LET shorter == SeqsUpTo(S, n - 1)
         IN  shorter \cup {Append(q, x) : q \in shorter, x \in S}

Disks ==
    {[p \in {File_a, File_b} \cup extra |-> Original(p)] :
        extra \in SUBSET {File_Ta}}

Init ==
    /\ source_files \in SeqsUpTo(Selectable, MaxFiles)
    /\ target_dir \in {NoTargetSelected, TargetDir, LinkDir}
    /\ rename_prefix \in {<<>>, <<"x">>}
    /\ rename_suffix = <<>>
    /\ convert_enabled \in BOOLEAN
    /\ target_extension \in {<<>>, <<"m">>}
    /\ conflict_policy \in {"auto_rename", "skip", "overwrite"}
    /\ fs \in Disks
    /\ fs0 = fs
    /\ pc = "idle"
    /\ i = 0
    /\ total_files = 0
    /\ success_count = 0
    /\ outcomes = <<>>
    /\ batch_errors = 0
    /\ completion = "none"
    /\ arg = NoPath
    /\ ret = NoPath

Next == Start \/ ProcessItem \/ Finish

Spec == Init /\ [][Next]_vars

-----------------------------------------------------------------------------
(* Direct calls of the two path functions *)

\* get_unique_output_path(arg) on a directory holding a run of numbered names
Name_f == <<"f", ".", "t">>
Name_g == <<"g">>

Numbered(path, n) ==
    WithName(path, NumberedName(PathStem(path.name), n, PathSuffix(path.name)))

Chain(path, k) == {path} \cup {Numbered(path, n) : n \in 1..(k - 1)}

UniqueDisksOf(k) ==
    {[p \in (IF k = 0 THEN {} ELSE Chain(Join(TargetDir, Name_f), k)) \cup extra
        |-> Original(p)] :
        extra \in SUBSET {Numbered(Join(TargetDir, Name_f), k + 1),
                          Join(TargetDir, Name_g),
                          Numbered(Join(TargetDir, Name_g), 1)}}

UniqueDisks == UNION {UniqueDisksOf(k) : k \in 0..MaxChain}

InitUnique ==
    /\ source_files = <<>>
    /\ target_dir = TargetDir
    /\ rename_prefix = <<>>
    /\ rename_suffix = <<>>
    /\ convert_enabled = FALSE
    /\ target_extension = <<>>
    /\ conflict_policy = "auto_rename"
    /\ fs \in UniqueDisks
    /\ fs0 = fs
    /\ pc = "call"
    /\ i = 0
    /\ total_files = 0
    /\ success_count = 0
    /\ outcomes = <<>>
    /\ batch_errors = 0
    /\ completion = "none"
    /\ arg \in {Join(TargetDir, Name_f), Join(LinkDir, Name_f),
                Join(TargetDir, Name_g),
                Numbered(Join(TargetDir, Name_f), 1)}
    /\ ret = NoPath

CallUnique ==
    /\ pc = "call"
    /\ ret' = get_unique_output_path(arg)
    /\ pc' = "answered"
    /\ UNCHANGED <<settings, fs, fs0, i, total_files, success_count, outcomes,
                   batch_errors, completion, arg>>

SpecUnique == InitUnique /\ [][CallUnique]_vars

\* get_output_path(arg) for every short name over a letter, the dot and an
\* upper-case letter (a name made of dots alone names no file)
Alphabet == {"a", ".", "M"}

RECURSIVE NamesOfLen(_)
NamesOfLen(n) ==
    IF n = 0 THEN {<<>>}
    ELSE {Append(q, c) : q \in NamesOfLen(n - 1), c \in Alphabet}

FileNames ==
    {n \in UNION {NamesOfLen(k) : k \in 1..MaxNameLen} :
        \E j \in 1..Len(n) : n[j] /= "."}

InitResolve ==
    /\ source_files = <<>>
    /\ target_dir \in {NoTargetSelected, TargetDir, LinkDir}
    /\ rename_prefix \in {<<>>, <<"x">>}
    /\ rename_suffix \in {<<>>, <<"s">>}
    /\ convert_enabled \in BOOLEAN
    /\ target_extension \in {<<>>, <<"w">>, <<".", "W">>}
    /\ conflict_policy = "auto_rename"
    /\ fs = <<>>
    /\ fs0 = fs
    /\ pc = "call"
    /\ i = 0
    /\ total_files = 0
    /\ success_count = 0
    /\ outcomes = <<>>
    /\ batch_errors = 0
    /\ completion = "none"
    /\ arg \in {Join(SourceDir, n) : n \in FileNames}
    /\ ret = NoPath

CallResolve ==
    /\ pc = "call"
    /\ ret' = get_output_path(arg)
    /\ pc' = "answered"
    /\ UNCHANGED <<settings, fs, fs0, i, total_files, success_count, outcomes,
                   batch_errors, completion, arg>>

SpecResolve == InitResolve /\ [][CallResolve]_vars

-----------------------------------------------------------------------------
(* Properties of get_unique_output_path (SpecUnique) *)

\* C6: a desired path that does not exist is returned unchanged; for one that
\* exists the result is "stem (n)ext" for the smallest n >= 1 whose name is
\* free, so f, f (1), ..., f (k-1) existing and f (k) free gives f (k); the
\* result never names an existing file.
C6_SmallestFreeNumber ==
    pc = "answered" =>
        IF Resolve(arg) \notin DOMAIN fs THEN ret = arg
        ELSE /\ Resolve(ret) \notin DOMAIN fs
             /\ \E n \in 1..Cardinality(DOMAIN fs) :
                   /\ ret = [dir |-> arg.dir,
                             name |-> PathStem(arg.name)
                                      \o <<" ", "(">> \o Str(n) \o <<")">>
                                      \o PathSuffix(arg.name)]
                   /\ \A m \in 1..(n - 1) :
                         Resolve(Numbered(arg, m)) \in DOMAIN fs

\* f.t and f (1).t ... f (9).t exist, and the answer is f (10).t
C6_Witness ==
    /\ pc = "answered"
    /\ arg = Join(LinkDir, Name_f)
    /\ Resolve(arg) \in DOMAIN fs
    /\ ret = Join(LinkDir,
                  <<"f", " ", "(", "1", "0", ")", ".", "t">>)

-----------------------------------------------------------------------------
(* Properties of get_output_path (SpecResolve) *)

C8_Body == rename_prefix \o PathStem(arg.name) \o rename_suffix

\* the target extension with its leading dot
C8_ConvertedName(name) ==
    \E e \in {target_extension, <<".">> \o target_extension} :
        /\ name = C8_Body \o e
        /\ e[1] = "."
        /\ (target_extension[1] = "." => e = target_extension)

-----------------------------------------------------------------------------
(* Properties of the batch (Spec) *)

Sources == {source_files[k] : k \in 1..Len(source_files)}

Items == 1..Len(outcomes)

\* the item reached the copy or the converter
Dispatched(o) == o.status \in {"succeeded", "failed"}

\* no write was refused by the operating system
NoRefusedWrite == \A j \in Items : outcomes[j].reason /= "PermissionDenied"

\* the path named a file before the run
OnDisk0(path) == Resolve(path) \in DOMAIN fs0

\* the two paths name one file
SameFile(p, q) == Resolve(p) = Resolve(q)

\* C1: no member of the source list is the destination of a copy or a
\* conversion, and every source file that existed before the run still has
\* the content it had.
C1_SourcesNeverWritten ==
    \A p \in Sources :
        OnDisk0(p) =>
            /\ \A j \in Items :
                  outcomes[j].wrote => ~SameFile(outcomes[j].final_path, p)
            /\ Resolve(p) \in DOMAIN fs
            /\ fs[Resolve(p)] = fs0[Resolve(p)]

\* the same source selected twice, its desired name and its " (1)" name free
C2_TwiceSelected ==
    /\ conflict_policy = "auto_rename"
    /\ ~ConversionActive
    /\ Len(source_files) = 2
    /\ source_files[1] = source_files[2]
    /\ OnDisk0(source_files[1])
    /\ ~OnDisk0(get_output_path(source_files[1]))
    /\ ~OnDisk0(Numbered(get_output_path(source_files[1]), 1))

\* C2: under auto_rename and skip a path written by one item is never the
\* destination of a later item: the later item whose desired path was written
\* before is skipped (skip) or gets a free name (auto_rename); the same source
\* selected twice under auto_rename goes to name.ext and name (1).ext, both
\* succeeded.
C2_NoRewriteUnlessOverwrite ==
    /\ conflict_policy /= "overwrite" =>
          \A j, k \in Items :
              (j < k /\ outcomes[j].wrote) =>
                  /\ Dispatched(outcomes[k]) =>
                        ~SameFile(outcomes[k].final_path,
                                  outcomes[j].final_path)
                  /\ SameFile(outcomes[k].desired, outcomes[j].final_path) =>
                        IF conflict_policy = "skip"
                        THEN outcomes[k].status = "skipped"
                        ELSE /\ ~SameFile(outcomes[k].final_path,
                                          outcomes[k].desired)
                             /\ ~outcomes[k].existed
    /\ (pc = "done" /\ C2_TwiceSelected /\ NoRefusedWrite) =>
          /\ outcomes[1].final_path = get_output_path(source_files[1])
          /\ outcomes[2].final_path
                = Numbered(get_output_path(source_files[1]), 1)
          /\ outcomes[1].status = "succeeded"
          /\ outcomes[2].status = "succeeded"
          /\ success_count = 2

\* the run of the twice-selected source has ended with both copies made
C2_Witness ==
    /\ pc = "done"
    /\ C2_TwiceSelected
    /\ success_count = 2
    /\ ~SameFile(outcomes[2].final_path, outcomes[1].final_path)
    /\ Resolve(outcomes[2].final_path) \in DOMAIN fs

\* the case of the identity guard: nothing is renamed, nothing is converted,
\* and the item's source is an existing file of the target directory
C3_Case(o) ==
    /\ rename_prefix = <<>>
    /\ rename_suffix = <<>>
    /\ ~convert_enabled
    /\ Resolve(o.source).dir = Resolve(Join(target_dir, <<>>)).dir
    /\ OnDisk0(o.source)

C4_OneMissing ==
    /\ Len(source_files) = 3
    /\ OnDisk0(source_files[1])
    /\ ~OnDisk0(source_files[2])
    /\ OnDisk0(source_files[3])
    /\ \A j, k \in 1..3 :
          /\ ~OnDisk0(get_output_path(source_files[j]))
          /\ ~SameFile(get_output_path(source_files[j]), source_files[k])
          /\ j /= k => ~SameFile(get_output_path(source_files[j]),
                                 get_output_path(source_files[k]))

C5_PreconditionsAbort ==
    /\ (pc /= "idle" /\ (source_files = <<>> \/ target_dir = NoTargetSelected
                          \/ target_dir = "")) =>
          /\ pc = "returned"
          /\ batch_errors = 1
          /\ fs = fs0
          /\ outcomes = <<>>
          /\ success_count = 0
          /\ completion = "none"
    /\ pc \in {"loop", "done"} => batch_errors = 0

\* the handler has returned for a non-empty source list without a target
C5_Witness ==
    /\ pc = "returned"
    /\ source_files /= <<>>
    /\ target_dir = NoTargetSelected
    /\ batch_errors = 1

\* C7: under skip, the iteration for an item whose desired path exists leaves
\* the disk and the success count as they are and moves on to the next item.
C7_SkipWritesNothing ==
    [][(/\ pc = "loop"
        /\ i <= Len(source_files)
        /\ conflict_policy = "skip"
        /\ Exists(get_output_path(source_files[i])))
       => (/\ fs' = fs
           /\ success_count' = success_count
           /\ i' = i + 1
           /\ pc' = "loop")]_vars

\* an item was skipped as a conflict and the next item was dispatched
C7_Witness ==
    /\ conflict_policy = "skip"
    /\ \E j \in Items :
          /\ outcomes[j].reason = "Conflict"
          /\ outcomes[j].existed
          /\ j + 1 \in Items
          /\ outcomes[j + 1].status = "succeeded"

\* C9: total is the length of the source list, succeeded is the number of
\* items whose copy or conversion completed (each of which left its file),
\* skipped and failed items count in total only, 0 <= succeeded <= total
\* after every item, and the completion line is an error line exactly when
\* succeeded < total.
C9_Tally ==
    /\ pc \in {"loop", "done"} =>
          /\ total_files = Len(source_files)
          /\ success_count
                = Cardinality({j \in Items : outcomes[j].status = "succeeded"})
          /\ \A j \in Items :
                outcomes[j].status = "succeeded" <=>
                    (outcomes[j].wrote
                     /\ outcomes[j].reason = "None"
                     /\ Resolve(outcomes[j].final_path) \in DOMAIN fs)
          /\ 0 <= success_count
          /\ success_count <= Len(outcomes)
          /\ success_count <= total_files
          /\ completion = "none" <=> pc = "loop"
    /\ pc = "done" =>
          /\ Len(outcomes) = total_files
          /\ completion = "error" <=> success_count < total_files
          /\ completion = "info" <=> success_count = total_files

\* a run has ended with a failed conversion and a completed one
C9_Witness ==
    /\ pc = "done"
    /\ completion = "error"
    /\ success_count = 1
    /\ \E j \in Items : outcomes[j].reason = "ConverterFailed"
    /\ \E j \in Items : outcomes[j].reason = "Conflict"

\* C10: under auto_rename every copy or conversion goes to a path that did
\* not exist when it was chosen, so every file that was in the target
\* directory before the run keeps its content, and the identity guard fires
\* only for a source that is missing.
C10_AutoRenameWritesFresh ==
    conflict_policy = "auto_rename" =>
        /\ \A j \in Items :
              /\ Dispatched(outcomes[j]) => ~outcomes[j].existed
              /\ outcomes[j].reason = "IdenticalPath"
                    => ~outcomes[j].source_existed
        /\ \A p \in DOMAIN fs0 :
              p.dir = Resolve(Join(target_dir, <<>>)).dir
                 => (p \in DOMAIN fs /\ fs[p] = fs0[p])

\* an item whose desired name was taken was written to the " (1)" name, and
\* the guard has fired for a missing source
C10_Witness ==
    /\ conflict_policy = "auto_rename"
    /\ \E j \in Items :
          /\ outcomes[j].wrote
          /\ outcomes[j].existed = FALSE
          /\ outcomes[j].final_path = Numbered(outcomes[j].desired, 1)
    /\ \E j \in Items : outcomes[j].reason = "IdenticalPath"

====
